---- MODULE Spec2Model ----
(***************************************************************************)
(* A model of image_rust: the filter pipeline of src/src/filter.rs (the    *)
(* argument parser, the executor loop over FilterOperation values, the     *)
(* Floyd-Steinberg ditherer, the pixelator, the save step) and the shared  *)
(* palette store of src/src/palette.rs (ACTIVE_PALETTE behind an RwLock).  *)
(*                                                                         *)
(* Rasters are row-major sequences of pixels; a pixel of a 3-channel       *)
(* raster is a tuple <<r, g, b>>, a pixel of a 1-channel raster a number.  *)
(***************************************************************************)
EXTENDS Integers, Sequences, FiniteSets, TLC

VARIABLES
    \* --- filter.rs apply() ---
    pc,                 \* position in apply()
    args,               \* std::env::args()
    argi,               \* index of the parsing loop (1-based into args)
    operations,         \* Vec<FilterOperation>
    image,              \* `image`, NoRaster before image::open
    gray_image_option,  \* Option<GrayImage>
    opi,                \* number of operations the executor loop has run
    outcome,            \* what apply() printed last / how it ended
    encoded,            \* the raster handed to the encoder, NoRaster before
    consumed,           \* history: the raster the latest operation read
    predOut,            \* history: the output raster of the operation before it
    resized,            \* history: the dimensions passed to imageops::resize
    \* --- floyd_steinberg_dithering, pixel by pixel ---
    dIn,                \* the `image` argument (a GrayImage's pixels)
    dImg,               \* `img`, the mutable clone
    dW, dH,             \* width, height
    dK,                 \* pixels visited so far, in raster-scan order
    \* --- palette.rs ---
    palette,            \* contents of ACTIVE_PALETTE
    lockWriter,         \* thread holding the write lock, or None
    lockReaders,        \* threads holding a read lock
    th,                 \* per-thread position and locals
    installed,          \* history: the slices set_active_palette was given
    qColor, qResult     \* a single get_nearest_color(qColor) and its result

pipeVars == <<pc, args, argi, operations, image, gray_image_option, opi, outcome,
              encoded, consumed, predOut, resized>>
ditherVars == <<dIn, dImg, dW, dH, dK>>
storeVars == <<palette, lockWriter, lockReaders, th, installed>>
queryVars == <<qColor, qResult>>
vars == <<pipeVars, ditherVars, storeVars, queryVars>>

None == "None"

(***************************************************************************)
(* Bounds of the model.                                                    *)
(***************************************************************************)
MaxWidth == 3
MaxHeight == 2
MaxPaletteLen == 3
MaxTokens == 3
MaxCalls == 2

(***************************************************************************)
(* u8 / i16 arithmetic helpers.                                            *)
(***************************************************************************)
\* Rust's integer `/` truncates toward zero; TLA+'s \div floors.
TruncDiv(a, b) == IF a >= 0 THEN a \div b ELSE -((-a) \div b)

\* i16::clamp(0, 255) followed by `as u8`
Clamp(v) == IF v < 0 THEN 0 ELSE IF v > 255 THEN 255 ELSE v

\* index of pixel (x, y), 0-based coordinates, in a row-major sequence
Idx(x, y, w) == y * w + x + 1

(***************************************************************************)
(* Ditherer: filter.rs quantize / floyd_steinberg_dithering.               *)
(***************************************************************************)
quantize(value) == IF value < 128 THEN 0 ELSE 255

\* the four neighbours that receive error, as written in the loop body
RightOf(x, y) == <<x + 1, y>>
BottomLeftOfMut(x, y) == <<x - 1, y>>
BottomLeftOf(x, y) == <<x - 1, y + 1>>
BottomOf(x, y) == <<x, y + 1>>
BottomRightOf(x, y) == <<x + 1, y + 1>>

\* img.put_pixel(p, clamp(img.get_pixel(p) + error * num / 16))
Diffuse(img, w, p, error, num) ==
    [img EXCEPT ![Idx(p[1], p[2], w)] = Clamp(@ + TruncDiv(error * num, 16))]

\* one iteration of the inner loop of floyd_steinberg_dithering at (x, y)
DitherPixel(img, w, h, x, y) ==
    LET old_pixel == img[Idx(x, y, w)]
        new_pixel == quantize(old_pixel)
        error == old_pixel - new_pixel
        i0 == [img EXCEPT ![Idx(x, y, w)] = new_pixel]
        i1 == IF x + 1 < w THEN Diffuse(i0, w, RightOf(x, y), error, 7) ELSE i0
        i2 == IF y + 1 < h /\ x > 0
                 THEN Diffuse(i1, w, BottomLeftOf(x, y), error, 3) ELSE i1
        i3 == IF y + 1 < h THEN Diffuse(i2, w, BottomOf(x, y), error, 5) ELSE i2
        i4 == IF y + 1 < h /\ x + 1 < w
                 THEN Diffuse(i3, w, BottomRightOf(x, y), error, 1) ELSE i3
    IN i4

\* the loops `for y in 0..height { for x in 0..width {..} }` from pixel k on
\* (k counts visited pixels in raster-scan order)
RECURSIVE DitherFrom(_, _, _, _)
DitherFrom(img, w, h, k) ==
    IF k >= w * h THEN img
    ELSE DitherFrom(DitherPixel(img, w, h, k % w, k \div w), w, h, k + 1)

floyd_steinberg_dithering(px, w, h) == DitherFrom(px, w, h, 0)

(***************************************************************************)
(* Quantizer: palette.rs get_nearest_color over the active palette.        *)
(***************************************************************************)
\* dr * dr + dg * dg + db * db (i32, no overflow: at most 3 * 255^2)
SqDist(p, c) ==
    LET dr == p[1] - c[1]
        dg == p[2] - c[2]
        db == p[3] - c[3]
    IN dr * dr + dg * dg + db * db

\* Iterator::min_by_key folds with `match cmp(acc, x) { Greater => x, _ => acc }`:
\* the accumulated element is replaced only by a strictly smaller key.
ReplacesMut(accKey, key) == key <= accKey
Replaces(accKey, key) == key < accKey

RECURSIVE MinByKeyFrom(_, _, _, _)
MinByKeyFrom(pal, c, acc, i) ==
    IF i > Len(pal) THEN acc
    ELSE MinByKeyFrom(pal, c,
                      IF Replaces(SqDist(acc, c), SqDist(pal[i], c)) THEN pal[i] ELSE acc,
                      i + 1)

\* the body of get_nearest_color once the read lock is held
get_nearest_color(pal, color) ==
    IF Len(pal) = 0 THEN color ELSE MinByKeyFrom(pal, color, pal[1], 2)

(***************************************************************************)
(* Rasters of the pipeline.  A DynamicImage / ImageBuffer is a record      *)
(*   [w, h, ch, px]: dimensions, channel count (1 = Luma8, 3 = Rgb8) and   *)
(* the row-major pixel sequence.                                           *)
(***************************************************************************)
Raster(w, h, ch, px) == [w |-> w, h |-> h, ch |-> ch, px |-> px]

\* Option::None / "no raster yet", and Option::is_some
NoRaster == Raster(0, 0, 0, <<>>)
IsSome(r) == r.ch # 0

\* GenericImageView::get_pixel / into_rgb8 on a DynamicImage: a Luma8 pixel
\* v reads as (v, v, v), an Rgb8 pixel as itself (alpha is never read)
RgbOf(img, i) == IF img.ch = 1 THEN <<img.px[i], img.px[i], img.px[i]>> ELSE img.px[i]

into_rgb8(img) == Raster(img.w, img.h, 3, [i \in 1..Len(img.px) |-> RgbOf(img, i)])

\* filter.rs GB_PALETTE
GB_PALETTE ==
    << <<32, 32, 32>>, <<128, 255, 0>>, <<255, 255, 102>>, <<51, 255, 255>>,
       <<127, 0, 255>>, <<255, 51, 153>>, <<255, 128, 0>> >>

\* filter.rs color_distance is sqrt(r + g + b) in f32; r + g + b is an integer
\* below 2^24 and f32 sqrt is strictly increasing on those integers, so the
\* comparisons of min_by are those of the squared distances
color_distance(c1, c2) == SqDist(c1, c2)

\* filter.rs get_nearest_color: GB_PALETTE.iter().min_by(..), first minimum
RECURSIVE GbMinFrom(_, _, _)
GbMinFrom(color, acc, i) ==
    IF i > Len(GB_PALETTE) THEN acc
    ELSE GbMinFrom(color,
                   IF color_distance(color, GB_PALETTE[i]) < color_distance(color, acc)
                      THEN GB_PALETTE[i] ELSE acc,
                   i + 1)

gb_nearest_color(color) == GbMinFrom(color, GB_PALETTE[1], 2)

\* filter.rs apply_palette
apply_palette(img) ==
    Raster(img.w, img.h, 3, [i \in 1..Len(img.px) |-> gb_nearest_color(RgbOf(img, i))])

\* filter.rs grayscale: (0.299 r + 0.587 g + 0.114 b) as u8, truncating.  The
\* f32 sum is one below this integer formula for a few colours whose exact
\* luma is an integer; none of them occurs among the rasters of the model.
Luma(c) == (299 * c[1] + 587 * c[2] + 114 * c[3]) \div 1000

grayscale(rgb) == Raster(rgb.w, rgb.h, 1, [i \in 1..Len(rgb.px) |-> Luma(rgb.px[i])])

\* filter.rs apply_floyd_steinberg_dithering
apply_floyd_steinberg_dithering(img) ==
    LET g == grayscale(into_rgb8(img))
    IN Raster(g.w, g.h, 1, floyd_steinberg_dithering(g.px, g.w, g.h))

\* imageops::resize(.., FilterType::Nearest) as pixelate calls it: output
\* pixel (ox, oy) samples source pixel (floor((ox + 0.5) * w / nw), ..);
\* an empty source gives ImageBuffer::new(nw, nh), all zero
Min(a, b) == IF a < b THEN a ELSE b

SampleAt(o, n, nn) == Min(((2 * o + 1) * n) \div (2 * nn), n - 1)

Resize(img, nw, nh) ==
    IF img.w = 0 \/ img.h = 0
       THEN Raster(nw, nh, 3, [i \in 1..(nw * nh) |-> <<0, 0, 0>>])
       ELSE Raster(nw, nh, 3,
                   [i \in 1..(nw * nh) |->
                       img.px[Idx(SampleAt((i - 1) % nw, img.w, nw),
                                  SampleAt((i - 1) \div nw, img.h, nh), img.w)]])

\* filter.rs pixelate: the two dimensions handed to the first resize
SmallDims(img, pixel_size) == <<img.w \div pixel_size, img.h \div pixel_size>>

pixelate(img, pixel_size) ==
    LET rgb_img == into_rgb8(img)
        small == SmallDims(rgb_img, pixel_size)
        small_img == Resize(rgb_img, small[1], small[2])
    IN Resize(small_img, rgb_img.w, rgb_img.h)

(***************************************************************************)
(* Command line of filter.rs apply().  An argument is a tuple of lexemes:  *)
(* a "-pix=N" token is <<"-pix=", c1, .., cn>> with the characters of N,   *)
(* every other argument a one-element tuple.                               *)
(***************************************************************************)
DigitVal(ch) ==
    CASE ch = "0" -> 0 [] ch = "1" -> 1 [] ch = "2" -> 2 [] ch = "3" -> 3
      [] ch = "4" -> 4 [] ch = "5" -> 5 [] ch = "6" -> 6 [] ch = "7" -> 7
      [] ch = "8" -> 8 [] ch = "9" -> 9 [] OTHER -> -1

RECURSIVE DigitsValue(_, _)
DigitsValue(chars, acc) ==
    IF chars = <<>> THEN acc
    ELSE DigitsValue(Tail(chars), acc * 10 + DigitVal(Head(chars)))

\* str::parse::<u32>: an optional "+", then one or more decimal digits;
\* anything else is Err (modelled as -1).  The overflow error (a value above
\* u32::MAX) needs ten digits; the size strings of the model have at most two.
parse_u32(chars) ==
    LET digits == IF chars # <<>> /\ Head(chars) = "+" THEN Tail(chars) ELSE chars
    IN IF digits = <<>> \/ \E i \in 1..Len(digits) : DigitVal(digits[i]) < 0
          THEN -1
          ELSE DigitsValue(digits, 0)

SizeStrings ==
    { <<>>, <<"0">>, <<"2">>, <<"3">>, <<"x">>, <<"0", "0">>, <<"+", "2">> }

Tokens ==
    { <<"-pal">>, <<"-pixpal">>, <<"-floyd">>, <<"-pix">>, <<"-rev">> }
      \cup { <<"-pix=">> \o n : n \in SizeStrings }

RECURSIVE SeqsUpTo(_, _)
SeqsUpTo(S, n) ==
    IF n = 0 THEN { <<>> }
    ELSE LET shorter == SeqsUpTo(S, n - 1)
         IN shorter \cup { Append(q, e) : q \in { r \in shorter : Len(r) = n - 1 }, e \in S }

\* std::env::args(): the program name, then fewer than two further arguments
\* or operation tokens followed by the two paths
ArgVectors ==
    { <<  <<"prog">> >>, << <<"prog">>, <<"in.png">> >> }
      \cup { << <<"prog">> >> \o toks \o << <<"in.png">>, <<"out.png">> >> :
                toks \in SeqsUpTo(Tokens, MaxTokens) }

\* FilterOperation values
OpPalette == <<"Palette">>
OpFloydSteinberg == <<"FloydSteinberg">>
OpPixelate(n) == <<"Pixelate", n>>

\* one iteration of the parsing loop (filter.rs 150-175): the operations
\* after the argument, or "return" when apply() prints and returns
ParseArg(ops0, arg) ==
    IF arg = <<"-pal">> THEN [ops |-> Append(ops0, OpPalette), ret |-> None]
    ELSE IF arg = <<"-pixpal">>
      THEN [ops |-> ops0 \o <<OpPixelate(8), OpPalette>>, ret |-> None]
    ELSE IF arg = <<"-floyd">>
      THEN [ops |-> Append(ops0, OpFloydSteinberg), ret |-> None]
    ELSE IF Head(arg) = "-pix="
      THEN LET size == parse_u32(Tail(arg))
           IN IF size < 0 THEN [ops |-> ops0, ret |-> "invalid_pixel_size"]
              ELSE IF size # 0
                THEN [ops |-> Append(ops0, OpPixelate(size)), ret |-> None]
                ELSE [ops |-> ops0, ret |-> None]
    ELSE IF arg = <<"-pix">> THEN [ops |-> Append(ops0, OpPixelate(8)), ret |-> None]
    ELSE [ops |-> ops0, ret |-> "unknown_operation"]

(***************************************************************************)
(* The arms of the executor's match (filter.rs 196-221).  Each gives the   *)
(* new `image`, the new `gray_image_option` and the raster the arm read.   *)
(***************************************************************************)
\* `if gray_image_option.is_some() { image = ImageLuma8(gray.take()) }`
Promoted(img, gray) == IF IsSome(gray) THEN gray ELSE img

PaletteArm(img, gray) ==
    [image |-> apply_palette(Promoted(img, gray)), gray |-> NoRaster,
     read |-> Promoted(img, gray)]

PixelateArm(img, gray, size) ==
    [image |-> pixelate(Promoted(img, gray), size), gray |-> NoRaster,
     read |-> Promoted(img, gray)]

FloydSteinbergArmMut(img, gray) ==
    [image |-> apply_floyd_steinberg_dithering(img), gray |-> NoRaster, read |-> img]
FloydSteinbergArm(img, gray) ==
    [image |-> img, gray |-> apply_floyd_steinberg_dithering(img), read |-> img]

\* the raster handed to the encoder (filter.rs 224-231)
SaveChoice(img, gray) == IF IsSome(gray) THEN gray ELSE img

(***************************************************************************)
(* filter.rs apply(), step by step.                                        *)
(***************************************************************************)
\* image::open(input_path): the decoder's result.  Pixel (x, y) of the
\* decoded raster is drawn from a fixed pattern; a grayscale file decodes
\* to Luma8, a colour file to Rgb8.
InputColors == << <<200, 100, 50>>, <<32, 32, 32>>, <<255, 255, 255>>, <<10, 200, 30>> >>
InputGrays == << 100, 200, 128, 30 >>

Decoded(w, h, ch) ==
    Raster(w, h, ch,
           [i \in 1..(w * h) |->
               IF ch = 1 THEN InputGrays[((i - 1) % 4) + 1]
                         ELSE InputColors[((i - 1) % 4) + 1]])

PipeIdle ==
    /\ pc = "done" /\ args = <<>> /\ argi = 0 /\ operations = <<>>
    /\ image = NoRaster /\ gray_image_option = NoRaster /\ opi = 0
    /\ outcome = None /\ encoded = NoRaster /\ consumed = NoRaster
    /\ predOut = NoRaster /\ resized = {}

DitherIdle == dIn = <<>> /\ dImg = <<>> /\ dW = 0 /\ dH = 0 /\ dK = 0

LockIdle == lockWriter = None /\ lockReaders = {} /\ th = <<>> /\ installed = {}

StoreIdle == palette = <<>> /\ LockIdle

QueryIdle == qColor = <<>> /\ qResult = <<>>

PipeInit ==
    /\ DitherIdle /\ StoreIdle /\ QueryIdle
    /\ pc = "start"
    /\ args \in ArgVectors
    /\ argi = 0
    /\ operations = <<>>
    /\ image = NoRaster
    /\ gray_image_option = NoRaster
    /\ opi = 0
    /\ outcome = None
    /\ encoded = NoRaster
    /\ consumed = NoRaster
    /\ predOut = NoRaster
    /\ resized = {}

PipeFrame == UNCHANGED <<ditherVars, storeVars, queryVars>>

Return(what) == pc' = "done" /\ outcome' = what

\* filter.rs 134-148
CheckArgCount ==
    /\ pc = "start"
    /\ IF Len(args) < 3
          THEN Return("usage") /\ UNCHANGED argi
          ELSE pc' = "parse" /\ argi' = 2 /\ UNCHANGED outcome
    /\ UNCHANGED <<args, operations, image, gray_image_option, opi, encoded,
                   consumed, predOut, resized>>
    /\ PipeFrame

\* filter.rs 149-176: one iteration of `for i in 1..(args.len() - 2)`
ParseStep ==
    /\ pc = "parse"
    /\ argi <= Len(args) - 2
    /\ LET r == ParseArg(operations, args[argi])
       IN /\ operations' = r.ops
          /\ IF r.ret # None
                THEN Return(r.ret) /\ UNCHANGED argi
                ELSE argi' = argi + 1 /\ UNCHANGED <<pc, outcome>>
    /\ UNCHANGED <<args, image, gray_image_option, opi, encoded, consumed,
                   predOut, resized>>
    /\ PipeFrame

\* filter.rs 178-189: the loop is over; empty check, then image::open
OpenImage ==
    /\ pc = "parse"
    /\ argi > Len(args) - 2
    /\ IF operations = <<>>
          THEN Return("no_operations") /\ UNCHANGED image
          ELSE \/ Return("load_failed") /\ UNCHANGED image
               \/ /\ \E w \in 1..MaxWidth, h \in 1..MaxHeight, ch \in {1, 3} :
                       image' = Decoded(w, h, ch)
                  /\ pc' = "run"
                  /\ UNCHANGED outcome
    /\ UNCHANGED <<args, argi, operations, gray_image_option, opi, encoded,
                   consumed, predOut, resized>>
    /\ PipeFrame

\* what the executor's current raster is: the Tone image when there is one
CurrentOutput == SaveChoice(image, gray_image_option)

Install(arm) ==
    /\ image' = arm.image
    /\ gray_image_option' = arm.gray
    /\ consumed' = arm.read
    /\ predOut' = CurrentOutput
    /\ opi' = opi + 1

\* filter.rs 193-222: one iteration of `for op in operations`
RunOperation ==
    /\ pc = "run"
    /\ opi < Len(operations)
    /\ LET op == operations[opi + 1]
       IN IF op = OpPalette
            THEN /\ Install(PaletteArm(image, gray_image_option))
                 /\ UNCHANGED <<pc, outcome, resized>>
          ELSE IF op = OpFloydSteinberg
            THEN /\ Install(FloydSteinbergArm(image, gray_image_option))
                 /\ UNCHANGED <<pc, outcome, resized>>
          ELSE LET src == Promoted(image, gray_image_option)
                   small == SmallDims(src, op[2])
               IN /\ resized' = resized \cup {small, <<src.w, src.h>>}
                  /\ Install(PixelateArm(image, gray_image_option, op[2]))
                  \* a zero dimension: depending on the version of the image
                  \* crate the resampler returns an empty raster (and the
                  \* second resize a black one) or panics
                  /\ \/ UNCHANGED <<pc, outcome>>
                     \/ /\ small[1] = 0 \/ small[2] = 0
                        /\ Return("panic_resize")
    /\ UNCHANGED <<args, argi, operations, encoded>>
    /\ PipeFrame

\* filter.rs 224-231 with save() of 37-44: the encoder succeeds or fails
SaveImage ==
    /\ pc = "run"
    /\ opi = Len(operations)
    /\ encoded' = SaveChoice(image, gray_image_option)
    /\ IF IsSome(gray_image_option)
          THEN \/ Return("saved")
               \/ Return("panic_save")       \* .expect("Failed to save image!")
          ELSE \/ Return("saved")
               \/ Return("save_failed")      \* println!("Failed to save image ..")
    /\ UNCHANGED <<args, argi, operations, image, gray_image_option, opi,
                   consumed, predOut, resized>>
    /\ PipeFrame

PipeNext == CheckArgCount \/ ParseStep \/ OpenImage \/ RunOperation \/ SaveImage

SpecPipe == PipeInit /\ [][PipeNext]_vars

(***************************************************************************)
(* floyd_steinberg_dithering run pixel by pixel on every small GrayImage.  *)
(***************************************************************************)
GrayLevels == {5, 127, 230}

DitherInit ==
    /\ PipeIdle /\ StoreIdle /\ QueryIdle
    /\ dW \in 1..MaxWidth
    /\ dH \in 1..MaxHeight
    /\ dIn \in [1..(dW * dH) -> GrayLevels]
    /\ dImg = dIn
    /\ dK = 0

\* one iteration of the inner loop, at (dK % dW, dK / dW)
DitherStep ==
    /\ dK < dW * dH
    /\ dImg' = DitherPixel(dImg, dW, dH, dK % dW, dK \div dW)
    /\ dK' = dK + 1
    /\ UNCHANGED <<dIn, dW, dH, pipeVars, storeVars, queryVars>>

DitherNext == DitherStep

SpecDither == DitherInit /\ [][DitherNext]_vars

(***************************************************************************)
(* Claims about the pipeline executor (checked under SpecPipe).            *)
(***************************************************************************)
LastIsDither == opi > 0 /\ operations[opi] = OpFloydSteinberg

\* C1: once the image is decoded, the representation is Tone (there is a
\* gray image) exactly when the most recently applied operation was Dither,
\* a FullColor result of an operation has 3 channels, and the raster handed
\* to the encoder, after the last operation, has 1 channel exactly when the
\* final state is Tone and 3 channels otherwise.
C1_ToneIffLastDither ==
    /\ IsSome(image) => (IsSome(gray_image_option) <=> LastIsDither)
    /\ IsSome(gray_image_option) => gray_image_option.ch = 1
    /\ (IsSome(image) /\ opi > 0 /\ ~LastIsDither) => image.ch = 3
    /\ IsSome(encoded) =>
          /\ opi = Len(operations)
          /\ encoded.ch = IF LastIsDither THEN 1 ELSE 3
          /\ (encoded.ch = 1) <=> IsSome(gray_image_option)

\* a run Dither, Palette: Tone, then back to FullColor, saved with 3 channels
C1_Witness ==
    /\ pc = "done" /\ outcome = "saved"
    /\ operations = <<OpFloydSteinberg, OpPalette>>
    /\ encoded.ch = 3

\* a run ending in Dither, saved with 1 channel
C1_WitnessTone ==
    /\ pc = "done" /\ outcome = "saved"
    /\ operations = <<OpPalette, OpFloydSteinberg>>
    /\ encoded.ch = 1

\* C2: every operation reads the full output raster of the operation
\* immediately before it (the decoded image for the first one); so a Dither
\* in state Tone reads the Tone image the preceding Dither produced.
C2_ConsumesPredecessor == opi > 0 => consumed = predOut

\* C6: a "-pix=0" token among the operation tokens is a usage error: no
\* image is ever opened, and apply() ends with an error report.
ZeroSizeToken(arg) == Head(arg) = "-pix=" /\ parse_u32(Tail(arg)) = 0

HasZeroBlockSize ==
    Len(args) >= 3 /\ \E i \in 2..(Len(args) - 2) : ZeroSizeToken(args[i])

C6_ZeroBlockSizeRejected ==
    HasZeroBlockSize =>
        /\ ~IsSome(image)
        /\ pc = "done" =>
              outcome \in {"invalid_pixel_size", "unknown_operation", "no_operations"}

\* C7: the resampler is never called with a zero dimension (a block size
\* above the width or height is rejected before pixelate resizes).
C7_NoZeroResize == \A d \in resized : d[1] > 0 /\ d[2] > 0

\* C9: once the encoder has been called, apply() ends by reporting success
\* or the failure; it never panics, in either representation.
C9_SaveFailureReported ==
    (pc = "done" /\ IsSome(encoded)) => outcome \in {"saved", "save_failed"}

(***************************************************************************)
(* Claims about the ditherer (checked under SpecDither).                   *)
(***************************************************************************)
\* C5: every pixel visited so far, in raster-scan order, is 0 or 255 (and so
\* is every pixel of the result): no later error-diffusion write changes a
\* thresholded pixel.
C5_VisitedAreBinary == \A i \in 1..dK : dImg[i] \in {0, 255}

\* a finished 2 x 2 dithering in which diffused error changed the outcome of
\* a pixel against plain thresholding of the input
C5_Witness ==
    /\ dW >= 2 /\ dH >= 2 /\ dK = dW * dH
    /\ \E i \in 1..dK : dImg[i] # quantize(dIn[i])

(***************************************************************************)
(* get_nearest_color as a function of the active palette and the colour.   *)
(***************************************************************************)
TestColors == { <<0, 0, 0>>, <<255, 0, 0>>, <<0, 255, 0>>, <<255, 255, 255>> }

QueryInit ==
    /\ PipeIdle /\ DitherIdle /\ LockIdle
    /\ palette \in SeqsUpTo(TestColors, MaxPaletteLen)
    /\ qColor = <<>>
    /\ qResult = <<>>

Query ==
    /\ qResult = <<>>
    /\ \E c \in TestColors :
          /\ qColor' = c
          /\ qResult' = get_nearest_color(palette, c)
    /\ UNCHANGED <<pipeVars, ditherVars, storeVars>>

QueryNext == Query

SpecQuery == QueryInit /\ [][QueryNext]_vars

\* C4: on a non-empty palette the result is the entry at the least index
\* among those of minimum squared Euclidean distance to the colour.
C4_NearestIsFirstMinimum ==
    (qResult # <<>> /\ Len(palette) > 0) =>
        \E i \in 1..Len(palette) :
            /\ qResult = palette[i]
            /\ \A j \in 1..Len(palette) :
                  SqDist(palette[j], qColor) >= SqDist(palette[i], qColor)
            /\ \A j \in 1..(i - 1) :
                  SqDist(palette[j], qColor) > SqDist(palette[i], qColor)

\* a query with two different entries at the same minimum distance, answered
\* with the earlier one although a nearer-or-equal entry follows it
C4_Witness ==
    /\ qResult # <<>>
    /\ \E i, j \in 1..Len(palette) :
          /\ i < j
          /\ palette[i] # palette[j]
          /\ SqDist(palette[i], qColor) = SqDist(palette[j], qColor)
          /\ \A k \in 1..Len(palette) :
                SqDist(palette[k], qColor) >= SqDist(palette[i], qColor)
          /\ qResult = palette[i]
          /\ i > 1

(***************************************************************************)
(* palette.rs: ACTIVE_PALETTE behind an RwLock, used by threads that call  *)
(* set_active_palette, get_nearest_color and fallback_palette in any       *)
(* order.  No code path panics while it holds the lock, so the lock is     *)
(* never poisoned and read()/write() always return Ok.                     *)
(***************************************************************************)
Threads == {"t1", "t2"}

\* the vec! of the Lazy initialiser, and fallback_palette's default_colors
DefaultPalette ==
    << <<0, 0, 0>>, <<255, 255, 255>>, <<255, 0, 0>>, <<0, 255, 0>>,
       <<0, 0, 255>>, <<255, 255, 0>>, <<255, 0, 255>>, <<0, 255, 255>> >>

\* the slices callers hand to set_active_palette
PaletteArgs == { <<>>, << <<250, 10, 10>> >>, << <<250, 10, 10>>, <<10, 10, 250>> >> }

\* the colours callers hand to get_nearest_color
QueryColors == { <<10, 10, 200>> }

\* the pixels of the images callers hand to fallback_palette
FallbackImages == { << <<240, 20, 20>>, <<20, 20, 240>> >> }

IdleThread ==
    [pc |-> "idle", ret |-> "idle", calls |-> 0,
     colors |-> <<>>,            \* set_active_palette's `colors`
     color |-> <<>>,             \* get_nearest_color's `color`
     result |-> <<>>,            \* its return value
     seen |-> DefaultPalette,    \* history: the palette its last search read
     checked |-> DefaultPalette, \* history: the palette fallback_palette checked
     img |-> <<>>,               \* fallback_palette's input pixels
     out |-> <<>>,               \* the pixels of its ImageBuffer so far
     used |-> <<>>]              \* history: the palette each pixel was mapped with

StoreInit ==
    /\ PipeIdle /\ DitherIdle /\ QueryIdle
    /\ palette = DefaultPalette
    /\ lockWriter = None
    /\ lockReaders = {}
    /\ th = [t \in Threads |-> IdleThread]
    /\ installed = {DefaultPalette}

StoreFrame == UNCHANGED <<pipeVars, ditherVars, queryVars>>

\* RwLock: write() is granted when nobody holds the lock, read() when no
\* writer holds it
CanWrite(w, rs) == w = None /\ rs = {}
CanReadMut(w) == TRUE
CanRead(w) == w = None

\* fallback_palette keeps the active palette when `palette.len() > 1`
KeepsPalette(pal) == Len(pal) > 1

Fresh(l, p) == [l EXCEPT !.pc = p, !.ret = "idle", !.calls = @ + 1, !.result = <<>>]

\* a caller enters set_active_palette(colors)
CallSetActivePalette(t) ==
    /\ th[t].pc = "idle" /\ th[t].calls < MaxCalls
    /\ \E colors \in PaletteArgs :
          th' = [th EXCEPT ![t] = [Fresh(@, "set_lock") EXCEPT !.colors = colors]]
    /\ UNCHANGED <<palette, lockWriter, lockReaders, installed>>
    /\ StoreFrame

\* palette.rs 46: ACTIVE_PALETTE.write()
WriteLock(t) ==
    /\ th[t].pc = "set_lock"
    /\ CanWrite(lockWriter, lockReaders)
    /\ lockWriter' = t
    /\ installed' = installed \cup {th[t].colors}
    /\ th' = [th EXCEPT ![t].pc = "set_clear"]
    /\ UNCHANGED <<palette, lockReaders>>
    /\ StoreFrame

\* palette.rs 47: palette.clear()
Clear(t) ==
    /\ th[t].pc = "set_clear"
    /\ palette' = <<>>
    /\ th' = [th EXCEPT ![t].pc = "set_extend"]
    /\ UNCHANGED <<lockWriter, lockReaders, installed>>
    /\ StoreFrame

\* palette.rs 48: palette.extend_from_slice(colors), one element at a time
ExtendFromSlice(t) ==
    /\ th[t].pc = "set_extend"
    /\ Len(palette) < Len(th[t].colors)
    /\ palette' = Append(palette, th[t].colors[Len(palette) + 1])
    /\ UNCHANGED <<lockWriter, lockReaders, th, installed>>
    /\ StoreFrame

\* palette.rs 49: the write guard goes out of scope; set_active_palette returns
WriteUnlock(t) ==
    /\ th[t].pc = "set_extend"
    /\ Len(palette) >= Len(th[t].colors)
    /\ lockWriter' = None
    /\ th' = [th EXCEPT ![t].pc = th[t].ret]
    /\ UNCHANGED <<palette, lockReaders, installed>>
    /\ StoreFrame

\* a caller enters get_nearest_color(color)
CallGetNearestColor(t) ==
    /\ th[t].pc = "idle" /\ th[t].calls < MaxCalls
    /\ \E c \in QueryColors :
          th' = [th EXCEPT ![t] = [Fresh(@, "near_lock") EXCEPT !.color = c]]
    /\ UNCHANGED <<palette, lockWriter, lockReaders, installed>>
    /\ StoreFrame

\* palette.rs 55 and 76: ACTIVE_PALETTE.read()
ReadLock(t) ==
    /\ th[t].pc \in {"near_lock", "fb_lock"}
    /\ CanRead(lockWriter)
    /\ lockReaders' = lockReaders \cup {t}
    /\ th' = [th EXCEPT ![t].pc = IF @ = "near_lock" THEN "near_search" ELSE "fb_check"]
    /\ UNCHANGED <<palette, lockWriter, installed>>
    /\ StoreFrame

\* palette.rs 56-68: the search under the read lock, then the guard is
\* dropped and the colour returned (to fallback_palette's closure, which
\* stores it as the next pixel, or to the caller)
Search(t) ==
    /\ th[t].pc = "near_search"
    /\ LET r == get_nearest_color(palette, th[t].color)
       IN th' = [th EXCEPT ![t] =
                   [@ EXCEPT !.pc = th[t].ret,
                             !.result = r,
                             !.seen = palette,
                             !.out = IF th[t].ret = "fb_loop" THEN Append(@, r) ELSE @,
                             !.used = IF th[t].ret = "fb_loop" THEN Append(@, palette) ELSE @]]
    /\ lockReaders' = lockReaders \ {t}
    /\ UNCHANGED <<palette, lockWriter, installed>>
    /\ StoreFrame

\* a caller enters fallback_palette(input_image)
CallFallbackPalette(t) ==
    /\ th[t].pc = "idle" /\ th[t].calls < MaxCalls
    /\ \E im \in FallbackImages :
          th' = [th EXCEPT ![t] =
                   [Fresh(@, "fb_lock") EXCEPT !.img = im, !.out = <<>>, !.used = <<>>]]
    /\ UNCHANGED <<palette, lockWriter, lockReaders, installed>>
    /\ StoreFrame

\* palette.rs 77-91: the length check under the read lock; the guard is
\* dropped on both branches, and the else branch goes on to call
\* set_active_palette(&default_colors)
FallbackCheck(t) ==
    /\ th[t].pc = "fb_check"
    /\ lockReaders' = lockReaders \ {t}
    /\ IF KeepsPalette(palette)
          THEN th' = [th EXCEPT ![t] = [@ EXCEPT !.pc = "fb_loop", !.checked = palette]]
          ELSE th' = [th EXCEPT ![t] =
                        [@ EXCEPT !.pc = "set_lock", !.ret = "fb_loop",
                                  !.colors = DefaultPalette, !.checked = palette]]
    /\ UNCHANGED <<palette, lockWriter, installed>>
    /\ StoreFrame

\* palette.rs 96-101: ImageBuffer::from_fn calls the closure for the next
\* pixel, or is done and fallback_palette returns
FallbackLoop(t) ==
    /\ th[t].pc = "fb_loop"
    /\ IF Len(th[t].out) < Len(th[t].img)
          THEN th' = [th EXCEPT ![t] =
                        [@ EXCEPT !.pc = "near_lock", !.ret = "fb_loop",
                                  !.color = th[t].img[Len(th[t].out) + 1]]]
          ELSE th' = [th EXCEPT ![t] = [@ EXCEPT !.pc = "idle", !.ret = "idle"]]
    /\ UNCHANGED <<palette, lockWriter, lockReaders, installed>>
    /\ StoreFrame

StoreNext ==
    \E t \in Threads :
        \/ CallSetActivePalette(t) \/ WriteLock(t) \/ Clear(t)
        \/ ExtendFromSlice(t) \/ WriteUnlock(t)
        \/ CallGetNearestColor(t) \/ ReadLock(t) \/ Search(t)
        \/ CallFallbackPalette(t) \/ FallbackCheck(t) \/ FallbackLoop(t)

SpecStore == StoreInit /\ [][StoreNext]_vars

(***************************************************************************)
(* Claims about the palette store (checked under SpecStore).               *)
(***************************************************************************)
InSetActivePalette(t) == th[t].pc \in {"set_lock", "set_clear", "set_extend"}

\* C3: under every interleaving, the palette a get_nearest_color call
\* searches is a complete one: the initial default or a slice some
\* set_active_palette call was given in full, never the cleared or the
\* partially filled contents of a replacement in progress; and no thread
\* holds a read lock while a replacement is in progress.
C3_ReadersSeeCompletePalette ==
    /\ \A t \in Threads : th[t].seen \in installed
    /\ \A t \in Threads :
          th[t].pc = "near_search" =>
              /\ palette \in installed
              /\ \A u \in Threads : th[u].pc \notin {"set_clear", "set_extend"}

\* a get_nearest_color call holds the read lock on a replaced palette while
\* another thread's set_active_palette waits for the write lock
C3_Witness ==
    \E t, u \in Threads :
        /\ t # u
        /\ th[t].pc = "near_search"
        /\ th[u].pc = "set_lock"
        /\ palette # DefaultPalette /\ palette # th[u].colors
        /\ Len(palette) > 0

\* C8: the palette is never empty when a get_nearest_color call that
\* quantizes a pixel for fallback_palette reads it under its read lock.
C8_QuantizationPaletteNonEmpty ==
    \A t \in Threads :
        (th[t].pc = "near_search" /\ th[t].ret = "fb_loop") => Len(palette) >= 1

\* C8 for every caller of get_nearest_color: the palette a call reads is
\* never empty.
C8_SearchedPaletteNonEmpty ==
    \A t \in Threads :
        /\ Len(th[t].seen) >= 1
        /\ th[t].pc = "near_search" => Len(palette) >= 1

\* C10: fallback_palette resets the palette only when the palette it checked
\* is empty, and the palette its reset clears is empty: a non-empty active
\* palette is never replaced by the default.
C10_ResetsOnlyEmpty ==
    \A t \in Threads :
        (InSetActivePalette(t) /\ th[t].ret = "fb_loop") =>
            /\ th[t].checked = <<>>
            /\ th[t].pc = "set_clear" => palette = <<>>

\* C10, the race alone: the palette fallback_palette's reset clears is the
\* one its check saw.
C10_ResetClearsCheckedPalette ==
    \A t \in Threads :
        (th[t].pc = "set_clear" /\ th[t].ret = "fb_loop") => palette = th[t].checked

\* C11: within one fallback_palette call every pixel is mapped with the same
\* palette: the palettes its get_nearest_color calls read are all equal.
C11_OnePalettePerPass ==
    \A t \in Threads :
        \A i, j \in 1..Len(th[t].used) : th[t].used[i] = th[t].used[j]

\* C11 on the output alone: the pixels fallback_palette has produced are the
\* nearest colours of its input pixels in one and the same complete palette.
C11_OutputFromOnePalette ==
    \A t \in Threads :
        \E pal \in installed :
            \A i \in 1..Len(th[t].out) :
                th[t].out[i] = get_nearest_color(pal, th[t].img[i])

====
